---- MODULE Spec2Model ----
(***************************************************************************)
(* A model of the insurance query coverage checker: the two snapshots of   *)
(* the Streamlit script, src/app.py ("app") and src/query.py ("query").    *)
(* Text is a sequence of one-character strings; the regular expressions of *)
(* QueryParser.parse and ClauseRetriever.retrieve_clauses are computed     *)
(* position by position, as re.search / re.finditer compute them, over the *)
(* ASCII characters of the model's alphabet.                               *)
(***************************************************************************)
EXTENDS Integers, Sequences, FiniteSets, TLC

VARIABLES
    prog,             \* which snapshot runs: "app" (src/app.py) or "query" (src/query.py)
    pc,               \* the script's position
    dataset,          \* the 'dataset' folder on disk: whether it exists, and its files
    query,            \* st.text_input's value
    parsed_query,     \* parser.parse(query)
    documents,        \* loader.load_documents()[0]
    filenames,        \* loader.load_documents()[1]
    retriever,        \* the ClauseRetriever instance: its documents and filenames
    matched_clauses,  \* retriever.retrieve_clauses(parsed_query)
    result,           \* evaluator.evaluate(parsed_query, matched_clauses)
    shown,            \* what the page shows: st.error / warning / info / success calls
    error             \* the exception that ended the run uncaught

vars == <<prog, pc, dataset, query, parsed_query, documents, filenames, retriever,
          matched_clauses, result, shown, error>>

(***************************************************************************)
(* Text: characters, classes of the re module, case folding.               *)
(***************************************************************************)
Chars(s) == [i \in 1..Len(s) |-> SubSeq(s, i, i)]

NL == "\n"
TAB == "\t"

UPPER == Chars("ABCDEFGHIJKLMNOPQRSTUVWXYZ")
LOWER == Chars("abcdefghijklmnopqrstuvwxyz")
DIGITS == Chars("0123456789")

InSeq(c, s) == \E i \in 1..Len(s) : s[i] = c
IndexOf(c, s) == CHOOSE i \in 1..Len(s) : s[i] = c

\* re.IGNORECASE on ASCII text: both sides are compared case-folded.
UpperSet == {UPPER[i] : i \in 1..Len(UPPER)}
LowerOf == [c \in UpperSet |-> LOWER[IndexOf(c, UPPER)]]
Lower(c) == IF c \in UpperSet THEN LowerOf[c] ELSE c
\* \d
IsDigit(c) == InSeq(c, DIGITS)
DigitVal(c) == IndexOf(c, DIGITS) - 1
\* [a-zA-Z]
IsAlpha(c) == InSeq(c, UPPER) \/ InSeq(c, LOWER)
\* \w, the class \b is defined by
IsWord(c) == IsAlpha(c) \/ IsDigit(c) \/ c = "_"
\* \s, and the characters str.strip() removes: of the alphabet used here, the
\* space, the newline and the tab.
IsSpace(c) == c \in {" ", NL, TAB}

\* The pattern text `lit` (letters and spaces only) matches s at position i,
\* case-insensitively.
MatchAt(lit, s, i) ==
    /\ i >= 1
    /\ i + Len(lit) - 1 =< Len(s)
    /\ \A k \in 1..Len(lit) : Lower(s[i + k - 1]) = Lower(lit[k])

\* [- ]? followed by the literal `lit`, tried at position i: the position after
\* the literal, or 0 when there is no match. The literal starts with a letter,
\* so the optional separator is taken exactly when it is there.
OptSepThen(lit, s, i) ==
    IF MatchAt(lit, s, i) THEN i + Len(lit)
    ELSE IF i =< Len(s) /\ s[i] \in {"-", " "} /\ MatchAt(lit, s, i + 1)
         THEN i + 1 + Len(lit)
         ELSE 0

\* The end (exclusive) of the maximal run of characters of a class from i.
RECURSIVE DigitsEnd(_, _)
DigitsEnd(s, i) == IF i =< Len(s) /\ IsDigit(s[i]) THEN DigitsEnd(s, i + 1) ELSE i
RECURSIVE AlphaEnd(_, _)
AlphaEnd(s, i) == IF i =< Len(s) /\ IsAlpha(s[i]) THEN AlphaEnd(s, i + 1) ELSE i
RECURSIVE SpaceEnd(_, _)
SpaceEnd(s, i) == IF i =< Len(s) /\ IsSpace(s[i]) THEN SpaceEnd(s, i + 1) ELSE i

\* int() of the digits s[i..j-1]
RECURSIVE IntOf(_, _, _)
IntOf(s, i, j) == IF j =< i THEN 0 ELSE IntOf(s, i, j - 1) * 10 + DigitVal(s[j - 1])

\* Optional values: None is <<>>, a value v is <<v>>.
None == <<>>
Some(v) == <<v>>

\* The least element of a non-empty set of positions.
Least(S) == CHOOSE i \in S : \A j \in S : i =< j

\* re.search scans from the left and stops at the first position where the
\* pattern matches: the least of the positions where it matches (0: none).
SearchFirst(hits) == IF hits = {} THEN 0 ELSE Least(hits)

(***************************************************************************)
(* QueryParser.parse                                                       *)
(***************************************************************************)
app_SUPPORTED_PROCEDURES ==
    << "hip replacement", "knee replacement", "joint surgery", "bypass surgery",
       "appendectomy", "angioplasty", "cataract surgery", "dialysis",
       "organ transplant", "liver transplant", "kidney transplant",
       "cancer surgery", "spine surgery", "heart surgery", "craniotomy",
       "tumor removal", "cardiac surgery", "brain surgery" >>

query_SUPPORTED_PROCEDURES ==
    << "hip replacement", "knee replacement", "joint surgery", "bypass surgery",
       "appendectomy", "angioplasty", "cataract surgery", "dialysis",
       "organ transplant", "liver transplant", "kidney transplant",
       "cancer surgery", "spine surgery", "heart surgery", "craniotomy",
       "tumor removal", "cardiac surgery", "brain surgery", "knee surgery" >>

\* (\d{2})[- ]?year[- ]?old at position i
YearOldAt(s, i) ==
    /\ i + 1 =< Len(s)
    /\ IsDigit(s[i])
    /\ IsDigit(s[i + 1])
    /\ LET j == OptSepThen(Chars("year"), s, i + 2)
       IN  j # 0 /\ OptSepThen(Chars("old"), s, j) # 0

\* \b(\d{2})M\b at position i
TokenMAt(s, i) ==
    /\ i + 2 =< Len(s)
    /\ (i = 1 \/ ~IsWord(s[i - 1]))
    /\ IsDigit(s[i])
    /\ IsDigit(s[i + 1])
    /\ Lower(s[i + 2]) = "m"
    /\ (i + 3 > Len(s) \/ ~IsWord(s[i + 3]))

app_AgeAt(s, i) == YearOldAt(s, i)
query_AgeAt(s, i) == YearOldAt(s, i) \/ TokenMAt(s, i)

\* in\s+([a-zA-Z]+) at position i
LocationAt(s, i) ==
    /\ MatchAt(Chars("in"), s, i)
    /\ i + 2 =< Len(s)
    /\ IsSpace(s[i + 2])
    /\ LET k == SpaceEnd(s, i + 2) IN k =< Len(s) /\ IsAlpha(s[k])

\* (\d+)[- ]?month[- ]?old at position i
app_DurationAt(s, i) ==
    /\ IsDigit(s[i])
    /\ LET j == OptSepThen(Chars("month"), s, DigitsEnd(s, i))
       IN  j # 0 /\ OptSepThen(Chars("old"), s, j) # 0

\* (\d+)[- ]?(month|mo)[- ]?(policy|old)? at position i: the trailing
\* separator and qualifier are optional, so the unit decides the match.
query_DurationAt(s, i) ==
    /\ IsDigit(s[i])
    /\ \/ OptSepThen(Chars("month"), s, DigitsEnd(s, i)) # 0
       \/ OptSepThen(Chars("mo"), s, DigitsEnd(s, i)) # 0

\* int(age_match.group(1) or age_match.group(2)) if age_match else None
AgeOf(s, i) == IF i = 0 THEN None ELSE Some(IntOf(s, i, i + 2))
\* location_match.group(1) if location_match else None
LocationOf(s, i) ==
    IF i = 0 THEN None
    ELSE LET k == SpaceEnd(s, i + 2) IN Some(SubSeq(s, k, AlphaEnd(s, k) - 1))
\* int(policy_duration_match.group(1)) if policy_duration_match else None
DurationOf(s, i) == IF i = 0 THEN None ELSE Some(IntOf(s, i, DigitsEnd(s, i)))

\* re.search(procedure, query, re.IGNORECASE): the entries hold letters and
\* spaces only, so the pattern is the literal text.
ProcedureIn(p, s) == \E i \in 1..Len(s) : MatchAt(Chars(p), s, i)

\* The loop without its break: the last entry that matches is kept.
RECURSIVE MatchedProcedure_NoBreak(_, _, _)
MatchedProcedure_NoBreak(procs, s, n) ==
    IF n > Len(procs) THEN None
    ELSE LET later == MatchedProcedure_NoBreak(procs, s, n + 1) IN
         IF later # None THEN later
         ELSE IF ProcedureIn(procs[n], s) THEN Some(procs[n]) ELSE None

\* for procedure in SUPPORTED_PROCEDURES: if re.search(...): matched = procedure; break
RECURSIVE MatchedProcedure(_, _, _)
MatchedProcedure(procs, s, n) ==
    IF n > Len(procs) THEN None
    ELSE IF ProcedureIn(procs[n], s) THEN Some(procs[n])
    ELSE MatchedProcedure(procs, s, n + 1)

app_parse(s) ==
    [age |-> AgeOf(s, SearchFirst({i \in 1..Len(s) : app_AgeAt(s, i)})),
     procedure |-> MatchedProcedure(app_SUPPORTED_PROCEDURES, s, 1),
     location |-> LocationOf(s, SearchFirst({i \in 1..Len(s) : LocationAt(s, i)})),
     policy_duration_months |-> DurationOf(s, SearchFirst({i \in 1..Len(s) : app_DurationAt(s, i)}))]

\* The age patterns tried one after the other, "year-old" first, instead of
\* as one alternation matched leftmost.
query_parse_YearOldFirst(s) ==
    [age |-> IF SearchFirst({i \in 1..Len(s) : YearOldAt(s, i)}) # 0
             THEN AgeOf(s, SearchFirst({i \in 1..Len(s) : YearOldAt(s, i)}))
             ELSE AgeOf(s, SearchFirst({i \in 1..Len(s) : TokenMAt(s, i)})),
     procedure |-> MatchedProcedure(query_SUPPORTED_PROCEDURES, s, 1),
     location |-> LocationOf(s, SearchFirst({i \in 1..Len(s) : LocationAt(s, i)})),
     policy_duration_months |-> DurationOf(s, SearchFirst({i \in 1..Len(s) : query_DurationAt(s, i)}))]

query_parse(s) ==
    [age |-> AgeOf(s, SearchFirst({i \in 1..Len(s) : query_AgeAt(s, i)})),
     procedure |-> MatchedProcedure(query_SUPPORTED_PROCEDURES, s, 1),
     location |-> LocationOf(s, SearchFirst({i \in 1..Len(s) : LocationAt(s, i)})),
     policy_duration_months |-> DurationOf(s, SearchFirst({i \in 1..Len(s) : query_DurationAt(s, i)}))]

(***************************************************************************)
(* DocumentLoader.load_documents                                           *)
(***************************************************************************)
\* filename.endswith(suffix)
EndsWith(name, suffix) ==
    /\ Len(name) >= Len(suffix)
    /\ SubSeq(name, Len(name) - Len(suffix) + 1, Len(name)) = suffix

\* text = ""; for page in doc: text += page.get_text()
RECURSIVE extract_text_from_pdf(_)
extract_text_from_pdf(pages) ==
    IF pages = <<>> THEN <<>> ELSE Head(pages) \o extract_text_from_pdf(Tail(pages))

\* for filename in os.listdir(folder_path): the texts of the .txt and .pdf
\* files, in listing order; any other file is skipped.
RECURSIVE ReadDocs(_)
ReadDocs(files) ==
    IF files = <<>> THEN <<>>
    ELSE LET f == Head(files) IN
         IF EndsWith(f.name, ".txt") THEN <<f.text>> \o ReadDocs(Tail(files))
         ELSE IF EndsWith(f.name, ".pdf")
              THEN <<extract_text_from_pdf(f.pages)>> \o ReadDocs(Tail(files))
              ELSE ReadDocs(Tail(files))

RECURSIVE ReadNames(_)
ReadNames(files) ==
    IF files = <<>> THEN <<>>
    ELSE LET f == Head(files) IN
         IF EndsWith(f.name, ".txt") \/ EndsWith(f.name, ".pdf")
         THEN <<f.name>> \o ReadNames(Tail(files))
         ELSE ReadNames(Tail(files))

FolderMissing == "The 'dataset' folder does not exist."
NoDocuments == "No valid .pdf or .txt documents found in 'dataset/' folder."

\* app.py: os.listdir raises FileNotFoundError for a missing folder; whatever
\* the listing yields is returned, an empty pair of lists included.
app_load_documents(ds) ==
    IF ~ds.exists
    THEN [raised |-> "FileNotFoundError", message |-> "No such file or directory: 'dataset'"]
    ELSE [raised |-> "", docs |-> ReadDocs(ds.files), filenames |-> ReadNames(ds.files)]

\* query.py: raises for a missing folder and for a folder without documents.
query_load_documents(ds) ==
    IF ~ds.exists
    THEN [raised |-> "FileNotFoundError", message |-> FolderMissing]
    ELSE IF ReadDocs(ds.files) = <<>>
         THEN [raised |-> "FileNotFoundError", message |-> NoDocuments]
         ELSE [raised |-> "", docs |-> ReadDocs(ds.files),
               filenames |-> ReadNames(ds.files)]

(***************************************************************************)
(* ClauseRetriever                                                         *)
(***************************************************************************)
BEFORE == 100
AFTER == 200

Max(a, b) == IF a >= b THEN a ELSE b
Min(a, b) == IF a =< b THEN a ELSE b

\* re.finditer(re.escape(proc), doc, re.IGNORECASE): the starts (1-based) of
\* the matches, left to right: each search takes the leftmost match at or
\* after `from`, and the next one resumes at the end of that match.
RECURSIVE FindIter(_, _, _)
FindIter(p, d, from) ==
    LET hits == {i \in from..(Len(d) - Len(p) + 1) : MatchAt(p, d, i)}
    IN  IF hits = {} THEN <<>>
        ELSE <<Least(hits)>> \o FindIter(p, d, Least(hits) + Len(p))

\* The last index of w that holds no whitespace (0: none).
RECURSIVE LastNonSpace(_, _)
LastNonSpace(w, i) == IF i >= 1 /\ IsSpace(w[i]) THEN LastNonSpace(w, i - 1) ELSE i

\* str.lstrip() in its place: the trailing whitespace stays.
Strip_LeftOnly(w) == SubSeq(w, SpaceEnd(w, 1), Len(w))

\* str.strip()
Strip(w) == SubSeq(w, SpaceEnd(w, 1), LastNonSpace(w, Len(w)))

\* str.replace('\n', ' ')
ReplaceNewlines(w) == [k \in 1..Len(w) |-> IF w[k] = NL THEN " " ELSE w[k]]

\* The window's end taken one character too far.
Snippet_EndOffByOne(p, d, i) ==
    LET start == Max(0, (i - 1) - BEFORE)
        end   == Min(Len(d), (i - 1) + Len(p) + AFTER + 1)
    IN  ReplaceNewlines(Strip(SubSeq(d, start + 1, end)))

\* The clause of the match of p that starts at i (1-based) in d:
\*   start = max(0, match.start() - 100); end = min(len(doc), match.end() + 200)
\*   snippet = doc[start:end].strip().replace('\n', ' ')
\* match.start() is i - 1 and match.end() is i - 1 + len(p); the slice
\* doc[start:end] is SubSeq(d, start + 1, end).
Snippet(p, d, i) ==
    LET start == Max(0, (i - 1) - BEFORE)
        end   == Min(Len(d), (i - 1) + Len(p) + AFTER)
    IN  ReplaceNewlines(Strip(SubSeq(d, start + 1, end)))

\* for match in re.finditer(...): clauses.append({"clause": snippet, "document": fname})
DocClauses(p, d, fname) ==
    LET ms == FindIter(p, d, 1)
    IN  [k \in 1..Len(ms) |-> [clause |-> Snippet(p, d, ms[k]), document |-> fname]]

\* for doc, fname in zip(self.documents, self.filenames)
RECURSIVE ZipClauses(_, _, _, _)
ZipClauses(p, docs, names, n) ==
    IF n > Min(Len(docs), Len(names)) THEN <<>>
    ELSE DocClauses(p, docs[n], names[n]) \o ZipClauses(p, docs, names, n + 1)

app_retrieve_clauses(self, pq) ==
    IF pq.procedure = None THEN <<>>
    ELSE ZipClauses(Chars(pq.procedure[1]), self.documents, self.filenames, 1)

\* query.py: disabled, the corpus is not read.
query_retrieve_clauses(self, pq) == <<>>

(***************************************************************************)
(* DecisionEvaluator.evaluate                                              *)
(***************************************************************************)
MIN_MONTHS == 12

app_evaluate(pq, clauses) ==
    IF pq.procedure = None
    THEN "No, coverage cannot be determined as the procedure is missing in the query."
    ELSE IF pq.policy_duration_months = None
    THEN "Yes, " \o pq.procedure[1]
         \o " is covered under the policy (policy duration not specified, assumed valid)."
    ELSE IF pq.policy_duration_months[1] < MIN_MONTHS
    THEN "No, " \o pq.procedure[1] \o " is not covered as the policy duration is only "
         \o ToString(pq.policy_duration_months[1])
         \o " month(s) (minimum 12 months required)."
    ELSE "Yes, " \o pq.procedure[1] \o " is covered under the policy."

query_evaluate(pq, clauses) ==
    IF pq.procedure # None
    THEN "Yes, " \o pq.procedure[1] \o " is covered under the policy."
    ELSE "No, the query does not specify a valid procedure to evaluate coverage."

(***************************************************************************)
(* The script: one run per input, top to bottom.                           *)
(***************************************************************************)
Progs == {"app", "query"}

\* query = st.text_input(...); if query:
TextInput(q) ==
    /\ pc = "input"
    /\ query' = q
    /\ pc' = IF q = <<>> THEN "done" ELSE "parse"
    /\ UNCHANGED <<prog, dataset, parsed_query, documents, filenames, retriever,
                   matched_clauses, result, shown, error>>

\* parsed_query = parser.parse(query)
app_Parse ==
    /\ prog = "app"
    /\ pc = "parse"
    /\ parsed_query' = Some(app_parse(query))
    /\ pc' = "load"
    /\ UNCHANGED <<prog, dataset, query, documents, filenames, retriever,
                   matched_clauses, result, shown, error>>

query_Parse ==
    /\ prog = "query"
    /\ pc = "parse"
    /\ parsed_query' = Some(query_parse(query))
    /\ pc' = "load"
    /\ UNCHANGED <<prog, dataset, query, documents, filenames, retriever,
                   matched_clauses, result, shown, error>>

\* try: documents, filenames = loader.load_documents()
\* except FileNotFoundError: st.error(...); st.stop()
app_Load ==
    /\ prog = "app"
    /\ pc = "load"
    /\ LET r == app_load_documents(dataset) IN
       IF r.raised = "FileNotFoundError"
       THEN /\ shown' = Append(shown, [kind |-> "error", text |->
                "Error: 'dataset' folder missing. Create it and add .txt or .pdf files."])
            /\ pc' = "stopped"
            /\ UNCHANGED <<documents, filenames>>
       ELSE /\ documents' = r.docs
            /\ filenames' = r.filenames
            /\ pc' = "construct"
            /\ UNCHANGED shown
    /\ UNCHANGED <<prog, dataset, query, parsed_query, retriever, matched_clauses,
                   result, error>>

query_Load ==
    /\ prog = "query"
    /\ pc = "load"
    /\ LET r == query_load_documents(dataset) IN
       IF r.raised = "FileNotFoundError"
       THEN /\ shown' = Append(shown, [kind |-> "error", text |-> r.message])
            /\ pc' = "stopped"
            /\ UNCHANGED <<documents, filenames>>
       ELSE /\ documents' = r.docs
            /\ filenames' = r.filenames
            /\ pc' = "construct"
            /\ UNCHANGED shown
    /\ UNCHANGED <<prog, dataset, query, parsed_query, retriever, matched_clauses,
                   result, error>>

\* retriever = ClauseRetriever(documents, filenames); app.py defines __init__.
app_Construct ==
    /\ prog = "app"
    /\ pc = "construct"
    /\ retriever' = Some([documents |-> documents, filenames |-> filenames])
    /\ pc' = "retrieve"
    /\ UNCHANGED <<prog, dataset, query, parsed_query, documents, filenames,
                   matched_clauses, result, shown, error>>

\* query.py names the method _init_, so the class has no constructor taking
\* arguments: ClauseRetriever(documents, filenames) raises
\* "TypeError: ClauseRetriever() takes no arguments", which nothing catches.
query_Construct ==
    /\ prog = "query"
    /\ pc = "construct"
    /\ error' = Some("TypeError")
    /\ pc' = "crashed"
    /\ UNCHANGED <<prog, dataset, query, parsed_query, documents, filenames,
                   retriever, matched_clauses, result, shown>>

\* st.info(clause['clause']) for each clause, or st.warning(...)
ShowClauses(clauses) ==
    IF clauses # <<>>
    THEN [k \in 1..Len(clauses) |-> [kind |-> "info", text |-> clauses[k].clause]]
    ELSE <<[kind |-> "warning", text |-> "No relevant clauses found."]>>

\* matched_clauses = retriever.retrieve_clauses(parsed_query), and their display
app_Retrieve ==
    /\ prog = "app"
    /\ pc = "retrieve"
    /\ matched_clauses' = app_retrieve_clauses(retriever[1], parsed_query[1])
    /\ shown' = shown \o ShowClauses(matched_clauses')
    /\ pc' = "evaluate"
    /\ UNCHANGED <<prog, dataset, query, parsed_query, documents, filenames,
                   retriever, result, error>>

query_Retrieve ==
    /\ prog = "query"
    /\ pc = "retrieve"
    /\ matched_clauses' = query_retrieve_clauses(retriever[1], parsed_query[1])
    /\ pc' = "evaluate"
    /\ UNCHANGED <<prog, dataset, query, parsed_query, documents, filenames,
                   retriever, result, shown, error>>

\* result = evaluator.evaluate(parsed_query, matched_clauses); st.success(result)
app_Evaluate ==
    /\ prog = "app"
    /\ pc = "evaluate"
    /\ result' = Some(app_evaluate(parsed_query[1], matched_clauses))
    /\ shown' = Append(shown, [kind |-> "success", text |-> result'[1]])
    /\ pc' = "done"
    /\ UNCHANGED <<prog, dataset, query, parsed_query, documents, filenames,
                   retriever, matched_clauses, error>>

query_Evaluate ==
    /\ prog = "query"
    /\ pc = "evaluate"
    /\ result' = Some(query_evaluate(parsed_query[1], matched_clauses))
    /\ shown' = Append(shown, [kind |-> "success", text |-> result'[1]])
    /\ pc' = "done"
    /\ UNCHANGED <<prog, dataset, query, parsed_query, documents, filenames,
                   retriever, matched_clauses, error>>

\* A new input reruns the script from the top; nothing of the last run is kept.
Rerun ==
    /\ pc \in {"done", "stopped", "crashed"}
    /\ pc' = "input"
    /\ query' = <<>>
    /\ parsed_query' = None
    /\ documents' = <<>>
    /\ filenames' = <<>>
    /\ retriever' = None
    /\ matched_clauses' = <<>>
    /\ result' = None
    /\ shown' = <<>>
    /\ error' = None
    /\ UNCHANGED <<prog, dataset>>

(***************************************************************************)
(* Inputs of the script run: the queries typed and the folders found.      *)
(***************************************************************************)
Scenario1 == Chars("46M, knee surgery, Pune, 3-month policy")
Scenario2 == Chars("65-year-old patient, cataract surgery, 18 months old policy")
Scenario3 == Chars("general checkup")
Scenario5 == Chars("30 year old in Pune, hip replacement, 24-month-old policy")
Scenario6 == Chars("Dialysis, 6 month old policy")

Queries == {<<>>, Scenario1, Scenario2, Scenario3, Scenario5, Scenario6}

PolicyText ==
    Chars("Knee surgery and hip replacement are covered.") \o <<NL>>
    \o Chars("Dialysis is covered after 12 months; dialysis at home is excluded.")
RiderPage1 == Chars("Rider A: cataract surgery, ") \o <<NL>>
RiderPage2 == Chars("hip replacement and HIP REPLACEMENT revision.")

NotesFile == [name |-> "notes.md", text |-> Chars("knee surgery notes")]
PolicyFile == [name |-> "policy.txt", text |-> PolicyText]
RiderFile == [name |-> "rider.pdf", pages |-> <<RiderPage1, RiderPage2>>]

Datasets ==
    { [exists |-> FALSE, files |-> <<>>],
      [exists |-> TRUE, files |-> <<>>],
      [exists |-> TRUE, files |-> <<NotesFile>>],
      [exists |-> TRUE, files |-> <<PolicyFile>>],
      [exists |-> TRUE, files |-> <<NotesFile, RiderFile, PolicyFile>>] }

Unset ==
    /\ parsed_query = None
    /\ documents = <<>>
    /\ filenames = <<>>
    /\ retriever = None
    /\ matched_clauses = <<>>
    /\ result = None
    /\ shown = <<>>
    /\ error = None

Init ==
    /\ prog \in Progs
    /\ dataset \in Datasets
    /\ pc = "input"
    /\ query = <<>>
    /\ Unset

\* query.py's run ends at query_Construct: its retrieval and evaluation lines
\* are never reached from the top of the script.
Next ==
    \/ \E q \in Queries : TextInput(q)
    \/ app_Parse
    \/ query_Parse
    \/ app_Load
    \/ query_Load
    \/ app_Construct
    \/ query_Construct
    \/ app_Retrieve
    \/ app_Evaluate
    \/ Rerun

Spec == Init /\ [][Next]_vars

(***************************************************************************)
(* QueryParser.parse on its own: queries put together from fragments.      *)
(***************************************************************************)
MaxFrags == 2

Fragments ==
    << "46M", "65-year-old", "30 Year Old", "7M", "knee surgery", "Hip Replacement",
       "dialysis", "3-month policy", "18 months old", "in Pune", "general checkup" >>
Separators == {"", " ", ", "}

RECURSIVE Join(_, _, _)
Join(fs, sep, n) ==
    IF n > Len(fs) THEN <<>>
    ELSE Chars(Fragments[fs[n]]) \o (IF n < Len(fs) THEN Chars(sep) ELSE <<>>)
         \o Join(fs, sep, n + 1)

FragSeqs == UNION {[1..k -> 1..Len(Fragments)] : k \in 0..MaxFrags}

InitParse ==
    /\ prog \in Progs
    /\ dataset = [exists |-> FALSE, files |-> <<>>]
    /\ pc = "parse"
    /\ \E fs \in FragSeqs, sep \in Separators : query = Join(fs, sep, 1)
    /\ Unset

SpecParse == InitParse /\ [][app_Parse \/ query_Parse]_vars

(***************************************************************************)
(* ClauseRetriever.retrieve_clauses on its own: corpora of up to MaxDocs   *)
(* documents around the 100- and 200-character window.                     *)
(***************************************************************************)
MaxDocs == 2

Fill(n) == [k \in 1..n |-> "x"]

DocSet ==
    << Fill(150) \o Chars("dialysis") \o Fill(250),
       Fill(100) \o Chars("Dialysis") \o Fill(200),
       Fill(99) \o Chars("knee surgery") \o Fill(199),
       <<"a", NL, NL>> \o Chars("dialysis") \o <<NL, NL, NL, "b", " ">> \o Chars("DIALYSIS"),
       <<" ", NL>> \o Chars("knee surgery") \o <<TAB, " ">>,
       Fill(50) \o <<" ", NL>> \o Fill(99) \o Chars("dialysis") \o Fill(199) \o <<NL, " ">>
           \o Fill(50),
       Chars("dialysisdialysis knee surgery"),
       Fill(150) \o Chars("dialysis") \o Fill(120) \o <<NL>> \o Chars("DIALYSIS") \o Fill(250),
       Chars("nothing to see here") >>

LocateProcedures == {None, Some("dialysis"), Some("knee surgery")}

FileName(k) == "doc" \o ToString(k) \o (IF k % 2 = 1 THEN ".txt" ELSE ".pdf")

Corpora == UNION {[1..k -> 1..Len(DocSet)] : k \in 0..MaxDocs}

\* The retriever holds the corpus: through app.py's constructor, or through
\* query.py's _init_ called on an instance.
InitLocate ==
    /\ prog \in Progs
    /\ dataset = [exists |-> FALSE, files |-> <<>>]
    /\ pc = "retrieve"
    /\ query = <<>>
    /\ \E p \in LocateProcedures :
          parsed_query = Some([age |-> None, procedure |-> p, location |-> None,
                               policy_duration_months |-> None])
    /\ \E c \in Corpora :
          /\ documents = [k \in 1..Len(c) |-> DocSet[c[k]]]
          /\ filenames = [k \in 1..Len(c) |-> FileName(k)]
    /\ retriever = Some([documents |-> documents, filenames |-> filenames])
    /\ matched_clauses = <<>>
    /\ result = None
    /\ shown = <<>>
    /\ error = None

SpecLocate == InitLocate /\ [][app_Retrieve \/ query_Retrieve]_vars

(***************************************************************************)
(* DecisionEvaluator.evaluate on its own: every parsed query with a        *)
(* duration up to MaxMonths, every clause list of ClauseLists.             *)
(***************************************************************************)
MaxMonths == 13

EvalProcedures == {None, Some("dialysis"), Some("knee surgery")}
EvalDurations == {None} \cup {Some(n) : n \in 0..MaxMonths}
ClauseLists ==
    { <<>>,
      <<[clause |-> Chars("dialysis is excluded"), document |-> "doc1.txt"]>>,
      <<[clause |-> Chars("knee surgery is covered"), document |-> "doc1.txt"],
        [clause |-> Chars("dialysis is covered"), document |-> "doc2.pdf"]>> }

InitEval ==
    /\ prog \in Progs
    /\ dataset = [exists |-> FALSE, files |-> <<>>]
    /\ pc = "evaluate"
    /\ query = <<>>
    /\ \E a \in {None, Some(46)}, p \in EvalProcedures, d \in EvalDurations :
          parsed_query = Some([age |-> a, procedure |-> p, location |-> None,
                               policy_duration_months |-> d])
    /\ documents = <<>>
    /\ filenames = <<>>
    /\ retriever = None
    /\ matched_clauses \in ClauseLists
    /\ result = None
    /\ shown = <<>>
    /\ error = None

SpecEval == InitEval /\ [][app_Evaluate \/ query_Evaluate]_vars

(***************************************************************************)
(* What the claims speak of, stated apart from the code's own operators.   *)
(***************************************************************************)
LowerSeq(s) == [k \in 1..Len(s) |-> Lower(s[k])]

\* The text `lit` occurs in s at position i, letter case ignored.
OccursAt(lit, s, i) ==
    /\ i >= 1
    /\ i + Len(lit) - 1 =< Len(s)
    /\ LowerSeq(SubSeq(s, i, i + Len(lit) - 1)) = LowerSeq(lit)

\* The positions at which `lit` occurs in s, letter case ignored.
Occurrences(lit, s) ==
    LET ls == LowerSeq(s)
        ll == LowerSeq(lit)
    IN  {i \in 1..(Len(s) - Len(lit) + 1) : SubSeq(ls, i, i + Len(lit) - 1) = ll}

Occurs(lit, s) == Occurrences(lit, s) # {}

\* "year-old" in every hyphen/space variant
YearOldVariants == {a \o "year" \o b \o "old" : a, b \in {"", "-", " "}}

\* A 2-digit number at i immediately followed by "-year-old" (any variant, any case)
YearOldPhraseAt(s, i) ==
    /\ i + 1 =< Len(s)
    /\ s[i] \in {DIGITS[k] : k \in 1..10}
    /\ s[i + 1] \in {DIGITS[k] : k \in 1..10}
    /\ \E v \in YearOldVariants : OccursAt(Chars(v), s, i + 2)

\* The maximal run of digits that starts at i, when it is directly followed by
\* the letter M and the whole stands alone as a token: its end, else 0.
ShorthandEnd(s, i) ==
    IF /\ i =< Len(s)
       /\ IsDigit(s[i])
       /\ (i = 1 \/ ~IsWord(s[i - 1]))
    THEN LET j == DigitsEnd(s, i) IN
         IF j =< Len(s) /\ s[j] = "M" /\ (j = Len(s) \/ ~IsWord(s[j + 1]))
         THEN j ELSE 0
    ELSE 0

\* The number that two digits at i spell.
TwoDigits(s, i) == 10 * DigitVal(s[i]) + DigitVal(s[i + 1])

\* An age-like token the snapshot's pattern knows: an NN-year-old phrase, and
\* for query.py also a stand-alone two-digit NNM / NNm.
AgeLikeAt(p, s, i) ==
    \/ YearOldPhraseAt(s, i)
    \/ /\ p = "query"
       /\ i + 2 =< Len(s)
       /\ IsDigit(s[i]) /\ IsDigit(s[i + 1]) /\ s[i + 2] \in {"M", "m"}
       /\ (i = 1 \/ ~IsWord(s[i - 1]))
       /\ (i + 2 = Len(s) \/ ~IsWord(s[i + 3]))

ProceduresOf(p) == IF p = "app" THEN app_SUPPORTED_PROCEDURES ELSE query_SUPPORTED_PROCEDURES

Parsed == parsed_query[1]

\* Rendered verdicts, by what the text says.
StartsWith(r, pre) == Len(r) >= Len(pre) /\ SubSeq(r, 1, Len(pre)) = pre
Contains(r, sub) == \E i \in 1..(Len(r) - Len(sub) + 1) : SubSeq(r, i, i + Len(sub) - 1) = sub

Indeterminate(r) ==
    /\ StartsWith(r, "No, ")
    /\ \/ Contains(r, "procedure is missing")
       \/ Contains(r, "does not specify a valid procedure")
CoveredWithCaveat(r, p) ==
    /\ StartsWith(r, "Yes, " \o p \o " is covered")
    /\ Contains(r, "policy duration not specified, assumed valid")
NotCovered(r, p, d) ==
    /\ StartsWith(r, "No, " \o p \o " is not covered")
    /\ Contains(r, "only " \o ToString(d) \o " month")
    /\ Contains(r, "minimum 12 months")
CoveredUnqualified(r, p) == r = "Yes, " \o p \o " is covered under the policy."

(***************************************************************************)
(* C1 to C3, C5: the decision table, and the script run.                   *)
(***************************************************************************)
\* C1: evaluate is decided by (procedure present?, policy_duration_months)
\* alone: no procedure gives the indeterminate verdict; a procedure without a
\* duration gives covered-with-caveat; a duration below 12 gives not-covered,
\* citing the minimum and the duration; a duration of 12 or more gives covered,
\* unqualified; whatever the clause list holds.
C1_DecisionTable ==
    pc = "done" /\ result # None =>
        LET p == Parsed.procedure
            d == Parsed.policy_duration_months
            r == result[1]
        IN  /\ p = None => Indeterminate(r)
            /\ p # None /\ d = None => CoveredWithCaveat(r, p[1])
            /\ p # None /\ d # None /\ d[1] < 12 => NotCovered(r, p[1], d[1])
            /\ p # None /\ d # None /\ d[1] >= 12 => CoveredUnqualified(r, p[1])

\* No file of the folder is a .txt or a .pdf.
NoReadable(ds) ==
    \A k \in 1..Len(ds.files) :
        ~EndsWith(ds.files[k].name, ".txt") /\ ~EndsWith(ds.files[k].name, ".pdf")

\* C2: a missing folder, or one without a readable document, ends the run at
\* the load: no retriever is built, no clause is retrieved, nothing is
\* evaluated and no verdict is shown.
C2_LoadFailureIsTerminal ==
    (~dataset.exists \/ NoReadable(dataset)) =>
        /\ pc \notin {"construct", "retrieve", "evaluate"}
        /\ retriever = None
        /\ result = None
        /\ \A k \in 1..Len(shown) : shown[k].kind # "success"

\* C3: no step of the run raises: once the corpus has loaded with at least
\* one document, the run goes on to its verdict.
C3_NothingElseRaises ==
    Len(documents) >= 1 =>
        /\ error = None
        /\ pc # "crashed"

\* C5: scenario 1 parses to age 46, procedure "knee surgery", location
\* "Pune", duration 3, and its verdict is not-covered for the duration 3.
C5_Scenario1 ==
    query = Scenario1 =>
        /\ parsed_query # None =>
              Parsed = [age |-> Some(46), procedure |-> Some("knee surgery"),
                        location |-> Some(Chars("Pune")),
                        policy_duration_months |-> Some(3)]
        /\ pc = "done" => result # None /\ NotCovered(result[1], "knee surgery", 3)

(***************************************************************************)
(* C4, C6, C7: QueryParser.parse.                                          *)
(***************************************************************************)
\* The list positions of the entries that occur in the query.
OccurringEntries ==
    {n \in 1..Len(ProceduresOf(prog)) : Occurs(Chars(ProceduresOf(prog)[n]), query)}

\* C4: the parsed procedure is null exactly when no entry of
\* SUPPORTED_PROCEDURES occurs in the query, letter case ignored; otherwise it
\* is, verbatim, the entry of the earliest list position among those that
\* occur, wherever in the query they occur.
C4_ProcedureByListPosition ==
    pc = "load" =>
        IF OccurringEntries = {}
        THEN Parsed.procedure = None
        ELSE /\ Parsed.procedure # None
             /\ \E n \in OccurringEntries :
                   /\ \A m \in OccurringEntries : n =< m
                   /\ Parsed.procedure[1] = ProceduresOf(prog)[n]

\* C4's case: "knee surgery" stands first in the query and "Hip Replacement",
\* capitalised, after it; the procedure is the canonical "hip replacement".
C4_Witness ==
    /\ pc = "load"
    /\ prog = "query"
    /\ Parsed.procedure = Some("hip replacement")
    /\ \E i, j \in 1..Len(query) :
          /\ i < j
          /\ OccursAt(Chars("knee surgery"), query, i)
          /\ SubSeq(query, j, j + 14) = Chars("Hip Replacement")

\* C6 as stated: whatever else the query holds, the age is the number of
\* every NN-year-old phrase in it.
C6_AgeOfAnyYearOldPhrase ==
    pc = "load" =>
        \A i \in 1..Len(query) :
            YearOldPhraseAt(query, i) => Parsed.age = Some(TwoDigits(query, i))

\* C6, amended: in a query that holds an NN-year-old phrase, the age is the
\* number of the leftmost age-like token the snapshot's pattern knows: that
\* phrase's number when no other such token starts before it.
C6_AgeOfLeftmostToken ==
    pc = "load" /\ (\E k \in 1..Len(query) : YearOldPhraseAt(query, k)) =>
        \A i \in 1..Len(query) :
            AgeLikeAt(prog, query, i) /\ (\A j \in 1..(i - 1) : ~AgeLikeAt(prog, query, j))
                => Parsed.age = Some(TwoDigits(query, i))

\* C6's case: "46M" stands before "65-year-old" and query.py parses age 46.
C6_Witness ==
    /\ pc = "load"
    /\ prog = "query"
    /\ AgeLikeAt(prog, query, 1)
    /\ ~YearOldPhraseAt(query, 1)
    /\ \E k \in 2..Len(query) : YearOldPhraseAt(query, k) /\ TwoDigits(query, k) = 65
    /\ Parsed.age = Some(46)

\* C7: a query that holds the token <N>M and no year-old phrase parses to age N.
C7_ShorthandAge ==
    pc = "load" /\ (\A k \in 1..Len(query) : ~YearOldPhraseAt(query, k)) =>
        \A i \in 1..Len(query) :
            ShorthandEnd(query, i) # 0
                => Parsed.age = Some(IntOf(query, i, ShorthandEnd(query, i)))

(***************************************************************************)
(* C8 to C10: ClauseRetriever.retrieve_clauses.                            *)
(***************************************************************************)
\* The elements of a set of numbers, in ascending order.
RECURSIVE Ascending(_)
Ascending(S) ==
    IF S = {} THEN <<>>
    ELSE LET m == CHOOSE x \in S : \A y \in S : x =< y
         IN  <<m>> \o Ascending(S \ {m})

\* Every occurrence of p in the corpus as <<document index, position>>, by
\* document and then by position.
RECURSIVE HitsFrom(_, _, _)
HitsFrom(p, docs, n) ==
    IF n > Len(docs) THEN <<>>
    ELSE LET at == Ascending(Occurrences(p, docs[n]))
         IN  [k \in 1..Len(at) |-> <<n, at[k]>>] \o HitsFrom(p, docs, n + 1)

Hits == IF Parsed.procedure = None THEN <<>>
        ELSE HitsFrom(Chars(Parsed.procedure[1]), documents, 1)

ProcLen == Len(Parsed.procedure[1])

\* The window of the occurrence at position i of document d: up to 100
\* characters before its start, up to 200 after its end.
WindowLo(d, i) == IF i - 1 > 100 THEN i - 1 - 100 ELSE 0
WindowHi(d, i) == IF i - 1 + ProcLen + 200 < Len(d) THEN i - 1 + ProcLen + 200 ELSE Len(d)
Window(d, i) == SubSeq(d, WindowLo(d, i) + 1, WindowHi(d, i))

\* The first and the last position of w that hold no whitespace.
Ink(w) == {a \in 1..Len(w) : w[a] \notin {" ", NL, TAB}}
FirstInk(w) == CHOOSE a \in Ink(w) : \A b \in Ink(w) : a =< b
LastInk(w) == CHOOSE a \in Ink(w) : \A b \in Ink(w) : a >= b
Trimmed(w) == SubSeq(w, FirstInk(w), LastInk(w))

\* t with every run of consecutive newlines turned into one single space.
AfterNewline(t) == [k \in 1..Len(t) |-> <<t[k], IF k > 1 THEN t[k - 1] ELSE "">>]
StartsRun(e) == ~(e[1] = NL /\ e[2] = NL)
RunsCollapsed(t) ==
    LET kept == SelectSeq(AfterNewline(t), StartsRun)
    IN  [k \in 1..Len(kept) |-> IF kept[k][1] = NL THEN " " ELSE kept[k][1]]

\* t with every newline character turned into one space.
NewlinesSpaced(t) == [j \in 1..Len(t) |-> IF t[j] = NL THEN " " ELSE t[j]]

\* C8 as stated: no clause is longer than 300 characters.
C8_ClauseAtMost300 ==
    pc = "evaluate" =>
        \A k \in 1..Len(matched_clauses) : Len(matched_clauses[k].clause) =< 300

\* C8, amended: no clause is longer than 300 characters plus the length of
\* the procedure: 100 before the match, the match, 200 after it.
C8_ClauseAtMost300PlusMatch ==
    pc = "evaluate" =>
        \A k \in 1..Len(matched_clauses) :
            Len(matched_clauses[k].clause) =< 100 + ProcLen + 200

\* C8's case: a clause of the full window, longer than 300 characters.
C8_Witness ==
    /\ pc = "evaluate"
    /\ \E k \in 1..Len(matched_clauses) :
          /\ Len(matched_clauses[k].clause) = 300 + ProcLen
          /\ Len(matched_clauses[k].clause) > 300

\* C9: without a procedure no clause is returned; with one, there is one
\* clause per occurrence of the procedure in the corpus, in document order and
\* then in order of position, each under the filename of its document and
\* around the text of its occurrence, duplicates kept.
C9_OneClausePerOccurrence ==
    pc = "evaluate" =>
        /\ Parsed.procedure = None => matched_clauses = <<>>
        /\ Parsed.procedure # None =>
              LET hits == Hits IN
              /\ Len(matched_clauses) = Len(hits)
              /\ \A k \in 1..Len(hits) :
                    LET n == hits[k][1]
                        i == hits[k][2]
                        d == documents[n]
                        at == i - WindowLo(d, i) - FirstInk(Window(d, i)) + 1
                    IN  /\ matched_clauses[k].document = filenames[n]
                        /\ SubSeq(matched_clauses[k].clause, at, at + ProcLen - 1)
                              = SubSeq(d, i, i + ProcLen - 1)

\* What C10 says of the clause c of the occurrence at position i of document
\* d, with w its window, but for the newlines: the window stays inside the
\* document, the clause holds the occurrence, no newline, and no whitespace
\* at either end.
ClauseOfWindow(c, d, i, w) ==
    LET at == i - WindowLo(d, i) - FirstInk(w) + 1
    IN  /\ 0 =< WindowLo(d, i) /\ WindowLo(d, i) =< i - 1
        /\ i - 1 + ProcLen =< WindowHi(d, i) /\ WindowHi(d, i) =< Len(d)
        /\ SubSeq(c, at, at + ProcLen - 1) = SubSeq(d, i, i + ProcLen - 1)
        /\ \A j \in 1..Len(c) : c[j] # NL
        /\ ~IsSpace(c[1]) /\ ~IsSpace(c[Len(c)])

\* C10 as stated: the clause is the trimmed window with every run of
\* consecutive newlines as one single space.
C10_NewlineRunsCollapsed ==
    pc = "evaluate" /\ prog = "app" /\ Parsed.procedure # None =>
        LET hits == Hits IN
        /\ Len(matched_clauses) = Len(hits)
        /\ \A k \in 1..Len(hits) :
              LET d == documents[hits[k][1]]
                  i == hits[k][2]
                  c == matched_clauses[k].clause
                  w == Window(d, i)
              IN  /\ ClauseOfWindow(c, d, i, w)
                  /\ c = RunsCollapsed(Trimmed(w))

\* C10, amended: the clause is the trimmed window with every newline
\* character as one space, so a run of k newlines appears as k spaces and the
\* clause is as long as the trimmed window.
C10_EachNewlineOneSpace ==
    pc = "evaluate" /\ prog = "app" /\ Parsed.procedure # None =>
        LET hits == Hits IN
        /\ Len(matched_clauses) = Len(hits)
        /\ \A k \in 1..Len(hits) :
              LET d == documents[hits[k][1]]
                  i == hits[k][2]
                  c == matched_clauses[k].clause
                  w == Window(d, i)
              IN  /\ ClauseOfWindow(c, d, i, w)
                  /\ c = NewlinesSpaced(Trimmed(w))

\* C10's case: a window clipped at 100 before and 200 after the occurrence,
\* with whitespace trimmed at an end and a run of two newlines inside, which
\* the clause shows as two spaces.
C10_Witness ==
    /\ pc = "evaluate"
    /\ prog = "app"
    /\ Parsed.procedure # None
    /\ LET hits == Hits IN
       /\ Len(matched_clauses) = Len(hits)
       /\ \E k \in 1..Len(hits) :
             LET d == documents[hits[k][1]]
                 i == hits[k][2]
                 w == Window(d, i)
             IN  /\ WindowLo(d, i) > 0 /\ WindowHi(d, i) < Len(d)
                 /\ Len(Trimmed(w)) < Len(w)
       /\ \E k \in 1..Len(hits) :
             LET t == Trimmed(Window(documents[hits[k][1]], hits[k][2]))
                 c == matched_clauses[k].clause
             IN  \E j \in 1..(Len(t) - 1) :
                    t[j] = NL /\ t[j + 1] = NL /\ c[j] = " " /\ c[j + 1] = " "

====
